---- MODULE Spec2Model ----
(***************************************************************************)
(* KVManager (PylonKVManager): a key/value index that packs many logical   *)
(* keys into few substrate records ("tags").  Header records header<n> map *)
(* keys to compressed pointers, bucket records data<n> hold id -> value.   *)
(* The model follows the last iteration of the class (the one with the     *)
(* read cache and several headers).  Every await of the code is a step of  *)
(* the client; every kv.transact / kv.put that the code does not await is  *)
(* a transaction in flight that the substrate applies at some later time.  *)
(***************************************************************************)
EXTENDS Integers, Sequences, FiniteSets, Bags, TLC

(***************************************************************************)
(* Program constants.                                                      *)
(***************************************************************************)
MAX_TAG_SIZE == 2000
FirstID == 161
CodeBase == 65535

(***************************************************************************)
(* Bounds of the model.                                                    *)
(***************************************************************************)
\* ids handed out by one header0 incarnation: FirstID .. FirstID + MaxIds - 1
MaxIds == 3
\* bucket records are data0 .. data<MaxTag>
MaxTag == 2
\* header records are header0 .. header<MaxHdr>
MaxHdr == 2
\* a new call may start while at most this many transactions/tasks are in flight
MaxInFlight == 1
\* calls of one run that may start while something is in flight
MaxEarly == 1
\* public calls in one run
MaxCalls == 4

(***************************************************************************)
(* Keys and values.  A key or a string value is <<c, n>>: the ASCII string *)
(* made of n characters, c naming its content.  JSON.stringify writes it   *)
(* as n + 2 bytes.                                                         *)
(***************************************************************************)
Keys == { <<"a", 1>>, <<"z", 1960>> }
Values == { <<"s", 2>>, <<"H", 1975>> }
NoKey == <<"", 0>>
NoVal == <<"", 0>>

Max(a, b) == IF a > b THEN a ELSE b

RECURSIVE Digits(_)
\* the number of characters JSON.stringify writes for a non-negative integer
Digits(n) == IF n < 10 THEN 1 ELSE 1 + Digits(n \div 10)

\* the UTF-8 bytes JSON.stringify + TextEncoder give one UTF-16 code unit of
\* an id or pointer (ids start at 161, so the escaped ASCII range is unused)
UnitBytes(c) ==
  IF c < 128 THEN 1
  ELSE IF c < 2048 THEN 2
  ELSE IF c >= 55296 /\ c <= 57343 THEN 6
  ELSE 3

RECURSIVE StrBytes(_)
StrBytes(s) == IF s = <<>> THEN 0 ELSE UnitBytes(Head(s)) + StrBytes(Tail(s))

\* bytes of a quoted JSON string
KeyJson(k) == k[2] + 2
ValJson(v) == v[2] + 2
IdJson(id) == StrBytes(id) + 2

RECURSIVE SumOver(_, _)
SumOver(S, f) ==
  IF S = {} THEN 0
  ELSE LET x == CHOOSE y \in S : TRUE IN f[x] + SumOver(S \ {x}, f)

\* bytes of a JSON object or array with the given member sizes
Enclosed(n, total) == 2 + total + (IF n > 0 THEN n - 1 ELSE 0)

(***************************************************************************)
(* Partial maps (JS objects used as dictionaries).                         *)
(***************************************************************************)
Upd(f, k, v) == [x \in (DOMAIN f) \cup {k} |-> IF x = k THEN v ELSE f[x]]
Del(f, k) == [x \in (DOMAIN f) \ {k} |-> f[x]]
Empty == <<>>

(***************************************************************************)
(* num2str / str2num: a number as a string of UTF-16 code units, least     *)
(* significant first.  String.fromCharCode keeps the low 16 bits.          *)
(***************************************************************************)
RECURSIVE num2str(_)
num2str(n) ==
  LET c == (n % CodeBase) % 65536
      r == n \div CodeBase
  IN IF r > 0 THEN <<c>> \o num2str(r) ELSE <<c>>

RECURSIVE str2num(_)
str2num(s) ==
  IF s = <<>> THEN 0
  ELSE Head(s) + CodeBase * str2num(Tail(s))

\* expandDP2 that keeps the whole string as the id
expandDP2KeepsUnit(dp2) == [tag |-> str2num(<<dp2[1]>>) - FirstID, id |-> dp2]

compressDataPtr(dptr) == num2str(dptr.tag + FirstID) \o dptr.id
expandDP2(dp2) == [tag |-> str2num(<<dp2[1]>>) - FirstID, id |-> Tail(dp2)]

(***************************************************************************)
(* Records and their measured sizes.                                       *)
(***************************************************************************)
newhdr == [blocks |-> <<>>, dataptr |-> Empty, nextID |-> FirstID]
emptyTag == [size |-> 0, data |-> Empty]

\* sizeof({ [id]: v }); v absent (undefined) is left out by JSON.stringify
EntrySize(id, hasV, v) == IF hasV THEN 2 + IdJson(id) + 1 + ValJson(v) ELSE 2

\* sizeof(tag record): {"size":N,"data":{"<id>":<v>,...}}
sizeofTag(rec) ==
  LET ids == DOMAIN rec.data
      m == [i \in ids |-> IdJson(i) + 1 + ValJson(rec.data[i])]
  IN 8 + Digits(rec.size) + 8 + Enclosed(Cardinality(ids), SumOver(ids, m)) + 1

\* sizeof(header record): {"blocks":[..],"dataptr":{"<key>":"<dp2>",..},"nextID":N}
sizeofHdr(hdr) ==
  LET ks == DOMAIN hdr.dataptr
      m == [k \in ks |-> KeyJson(k) + 1 + StrBytes(hdr.dataptr[k]) + 2]
      bs == DOMAIN hdr.blocks
      d == [i \in bs |-> Digits(hdr.blocks[i])]
  IN 10 + Enclosed(Len(hdr.blocks), SumOver(bs, d))
     + 11 + Enclosed(Cardinality(ks), SumOver(ks, m))
     + 10 + Digits(hdr.nextID) + 1

\* sizeof({ [key]: dptr }) with dptr = {"tag":T,"id":"<id>"}
sizeofKeyPtr(key, dptr) ==
  2 + KeyJson(key) + 1 + (7 + Digits(dptr.tag) + 6 + IdJson(dptr.id) + 1)

(***************************************************************************)
(* State.                                                                  *)
(***************************************************************************)
VARIABLES
  hdrs,         \* substrate: header number n |-> record header<n> (absent: not in DOMAIN)
  dats,         \* substrate: bucket number n |-> record data<n>
  headerCache,  \* var headerCache
  dataCache,    \* var dataCache
  pending,      \* bag of kv.transact / kv.put calls issued and not awaited, not yet applied
  tasks,        \* bag of deleteKeyTag calls running in the background
  cl,           \* the caller: the running public call, its locals and its position
  log,          \* history: the last two completed calls
  issued,       \* history: the <<id, key>> incrementID has served since the last clear
  reissued,     \* history: incrementID gave a key the id it had given another key
  early,        \* history: the number of calls started with writes in flight
  ncalls,       \* history: the number of public calls started
  other,        \* a second call, suspended at one of its awaits
  probe         \* a pure function under examination: its input and its output

vars == <<hdrs, dats, headerCache, dataCache, pending, tasks, cl, log, issued,
          reissued, early, ncalls, other, probe>>

NoPtr == [tag |-> -1, id |-> <<>>]
NoRes == [kind |-> "none", val |-> NoVal, rec |-> emptyTag, n |-> 0]
Undefined == [kind |-> "undefined", val |-> NoVal, rec |-> emptyTag, n |-> 0]
ValRes(v) == [kind |-> "value", val |-> v, rec |-> emptyTag, n |-> 0]
RecRes(r) == [kind |-> "record", val |-> NoVal, rec |-> r, n |-> 0]
NumRes(n) == [kind |-> "number", val |-> NoVal, rec |-> emptyTag, n |-> n]

idleCl ==
  [pc |-> "idle", op |-> "none", key |-> NoKey, val |-> NoVal, cache |-> FALSE,
   hl |-> <<>>, i |-> 0, dptr |-> NoPtr, hdrTag |-> -1,
   blocks |-> <<>>, j |-> 0, size |-> 0, hdrSize |-> 0, count |-> 0,
   kase |-> "none", pre |-> NoPtr, preHdr |-> -1, preHas |-> FALSE, preSize |-> 0,
   preCount |-> 0, expect |-> -1, expect2 |-> -1, hw |-> FALSE, fresh |-> FALSE,
   preNext |-> FirstID, preVals |-> [k \in Keys |-> Undefined],
   preHdrs |-> Empty]

\* a completed call: its arguments and result, the branch it took (kase), the
\* pointer it ended with, whether it wrote a header record (hw) or took a new
\* bucket (fresh), and what the substrate held when it started: for its key
\* (pre..), header0's nextID (preNext), what a get of each key gave (preVals),
\* and for a set of a key that no header held the header records (preHdrs)
NoCall ==
  [op |-> "none", key |-> NoKey, val |-> NoVal, cache |-> FALSE, res |-> NoRes,
   kase |-> "none", pre |-> NoPtr, preHdr |-> -1, preHas |-> FALSE, preSize |-> 0,
   preCount |-> 0, expect |-> -1, expect2 |-> -1, hw |-> FALSE, fresh |-> FALSE,
   preNext |-> FirstID, preVals |-> [k \in Keys |-> Undefined],
   preHdrs |-> Empty, dptr |-> NoPtr, hdrTag |-> -1]

\* no pure function is under examination
NoProbe ==
  [fn |-> "none", stage |-> "idle", ptr |-> NoPtr, dp2 |-> <<>>, back |-> NoPtr,
   n |-> 0, s |-> <<>>, m |-> 0, nums |-> <<>>, slot |-> -1]

InFlight == BagCardinality(pending) + BagCardinality(tasks)

\* the local (JS side) state an operation works on
Local == [cl |-> cl, pend |-> pending, tasks |-> tasks, hc |-> headerCache,
          dc |-> dataCache, log |-> log]

Store(L) ==
  /\ cl' = L.cl
  /\ pending' = L.pend
  /\ tasks' = L.tasks
  /\ headerCache' = L.hc
  /\ dataCache' = L.dc
  /\ log' = L.log

Txn(t, n, k, id, dp, v) == [t |-> t, n |-> n, k |-> k, id |-> id, dp |-> dp, v |-> v]
Fire(L, txn) == [L EXCEPT !.pend = @ (+) SetToBag({txn})]

\* JS "n in arr" on an array: n is one of its indices (not one of its values)
InArray(n, arr) == n >= 0 /\ n < Len(arr)

\* arr.indexOf(n), 0-based, -1 when n is not a value of arr
IndexOf(arr, n) ==
  IF \E p \in DOMAIN arr : arr[p] = n
  THEN (CHOOSE p \in DOMAIN arr : arr[p] = n /\ \A q \in DOMAIN arr : arr[q] = n => p <= q) - 1
  ELSE -1

\* arr.splice(at, 1) for a 0-based position at; a negative at counts from the end
Splice1(arr, at) ==
  LET a == IF at < 0 THEN Max(Len(arr) + at, 0) ELSE at
  IN IF a >= Len(arr) THEN arr
     ELSE SubSeq(arr, 1, a) \o SubSeq(arr, a + 2, Len(arr))

RECURSIVE SeqMax(_)
SeqMax(s) == IF Len(s) = 1 THEN s[1] ELSE Max(s[1], SeqMax(Tail(s)))

RECURSIVE SortedSeq(_)
\* kv.list: the existing header tags in the substrate's (ascending) order
SortedSeq(S) ==
  IF S = {} THEN <<>>
  ELSE LET m == CHOOSE x \in S : \A y \in S : x <= y
       IN <<m>> \o SortedSeq(S \ {m})

ListHeaders == SortedSeq(DOMAIN hdrs)

(***************************************************************************)
(* The transform functions handed to kv.transact, applied by the substrate *)
(* as one atomic read-modify-write.  A transform that returns undefined    *)
(* deletes the record.                                                     *)
(***************************************************************************)
HdrOr(h, n) == IF n \in DOMAIN h THEN h[n] ELSE newhdr
TagOr(d, n) == IF n \in DOMAIN d THEN d[n] ELSE emptyTag

\* kv.put(headerTag, newhdr) of getHeader
putHeaderFn(h, n) == Upd(h, n, newhdr)

incrementIDFn(h) == Upd(h, 0, [HdrOr(h, 0) EXCEPT !.nextID = @ + 1])

updateKeyHdrFn(h, n, k, dp) ==
  Upd(h, n, [HdrOr(h, n) EXCEPT !.dataptr = Upd(@, k, dp)])

deleteKeyHdrFn(h, n, k) ==
  IF n \notin DOMAIN h THEN h
  ELSE IF n # 0 /\ Cardinality(DOMAIN h[n].dataptr) = 1 THEN Del(h, n)
  ELSE Upd(h, n, [h[n] EXCEPT !.dataptr = Del(@, k)])

addBlockFn(h, b) ==
  LET hdr == HdrOr(h, 0)
  IN IF ~InArray(b, hdr.blocks)
     THEN Upd(h, 0, [hdr EXCEPT !.blocks = Append(@, b)])
     ELSE Upd(h, 0, hdr)

removeBlockFn(h, b) ==
  LET hdr == HdrOr(h, 0)
  IN IF InArray(b, hdr.blocks)
     THEN Upd(h, 0, [hdr EXCEPT !.blocks = Splice1(@, IndexOf(@, b))])
     ELSE Del(h, 0)

\* an updateKeyTag that stores the new entry alone, as a kv.put would
updateKeyTagFnOverwrites(d, n, id, v) ==
  LET ret == [emptyTag EXCEPT !.data = Upd(@, id, v)]
  IN Upd(d, n, [ret EXCEPT !.size = sizeofTag(ret)])

updateKeyTagFn(d, n, id, v) ==
  LET prev == TagOr(d, n)
      ret == [prev EXCEPT !.data = Upd(@, id, v)]
  IN Upd(d, n, [ret EXCEPT !.size = sizeofTag(ret)])

\* a deleteKeyTag that stores the emptied record instead of deleting it
deleteKeyTagFnKeepsRecord(d, n, id) ==
  IF n \notin DOMAIN d THEN d
  ELSE LET ret == [d[n] EXCEPT !.data = Del(@, id)]
       IN Upd(d, n, [ret EXCEPT !.size = sizeofTag(ret)])

\* a variant that deletes the record only when it finds no entry in it
deleteKeyTagFnCountsZero(d, n, id) ==
  IF n \notin DOMAIN d THEN d
  ELSE IF Cardinality(DOMAIN d[n].data) = 0 THEN Del(d, n)
  ELSE LET ret == [d[n] EXCEPT !.data = Del(@, id)]
       IN Upd(d, n, [ret EXCEPT !.size = sizeofTag(ret)])

deleteKeyTagFn(d, n, id) ==
  IF n \notin DOMAIN d THEN d
  ELSE IF Cardinality(DOMAIN d[n].data) = 1 THEN Del(d, n)
  ELSE LET ret == [d[n] EXCEPT !.data = Del(@, id)]
       IN Upd(d, n, [ret EXCEPT !.size = sizeofTag(ret)])

(***************************************************************************)
(* The helpers of the class up to their first await: the cache eviction    *)
(* and the issue of the transaction.  None of them is awaited by callers.  *)
(***************************************************************************)
updateKeyHdr(L, n, k, dptr) ==
  Fire([L EXCEPT !.hc = Del(@, n), !.cl.hw = TRUE],
       Txn("updateKeyHdr", n, k, <<>>, compressDataPtr(dptr), NoVal))

deleteKeyHdr(L, n, k) ==
  Fire([L EXCEPT !.hc = Del(@, n), !.cl.hw = TRUE], Txn("deleteKeyHdr", n, k, <<>>, <<>>, NoVal))

addBlock(L, b) ==
  Fire([L EXCEPT !.hc = Del(@, 0), !.cl.hw = TRUE], Txn("addBlock", b, NoKey, <<>>, <<>>, NoVal))

removeBlock(L, b) ==
  Fire([L EXCEPT !.hc = Del(@, 0)], Txn("removeBlock", b, NoKey, <<>>, <<>>, NoVal))

updateKeyTag(L, dptr, v) ==
  Fire([L EXCEPT !.dc = Del(@, dptr.tag)],
       Txn("updateKeyTag", dptr.tag, NoKey, dptr.id, <<>>, v))

\* deleteKeyTag keeps the dptr object it was given: with shared = TRUE the
\* caller (set) still assigns dptr.tag, and the task reads it afterwards
deleteKeyTag(L, dptr, shared) ==
  [L EXCEPT !.dc = Del(@, dptr.tag),
            !.tasks = @ (+) SetToBag({[tag |-> dptr.tag, id |-> dptr.id,
                                       cur |-> dptr.tag, shared |-> shared,
                                       stage |-> "txn"]})]

\* getHeader(headerTag, cache): the header read from the substrate h
getHeaderRec(L, h, n, cache) ==
  IF cache /\ n \in DOMAIN L.hc THEN L.hc[n] ELSE HdrOr(h, n)

getHeader(L, h, n, cache) ==
  IF cache /\ n \in DOMAIN L.hc THEN L
  ELSE IF n \notin DOMAIN h
       THEN Fire([L EXCEPT !.cl.hw = TRUE], Txn("put", n, NoKey, <<>>, <<>>, NoVal))
       ELSE [L EXCEPT !.hc = Upd(@, n, h[n])]

(***************************************************************************)
(* getNewHeader: the smallest header slot not in headerNums (0-based array *)
(* positions; marks a seen slot by negating the entry at its position).    *)
(***************************************************************************)
Abs(x) == IF x < 0 THEN -x ELSE x

RECURSIVE MarkSeen(_, _)
MarkSeen(nums, i) ==
  IF i >= Len(nums) THEN nums
  ELSE LET v == Abs(nums[i + 1])
       IN IF v < Len(nums) /\ nums[v + 1] > 0
          THEN MarkSeen([nums EXCEPT ![v + 1] = -nums[v + 1]], i + 1)
          ELSE MarkSeen(nums, i + 1)

\* a getNewHeader that always takes the slot after the last listed header
getNewHeaderPastEnd(headerNums) == Len(headerNums)

getNewHeader(headerNums) ==
  LET marked == MarkSeen(headerNums, 1)
      free == {i \in 1..(Len(marked) - 1) : marked[i + 1] > 0}
  IN IF free # {} THEN CHOOSE i \in free : \A q \in free : i <= q
     ELSE Len(headerNums)

(***************************************************************************)
(* History of completed calls.                                             *)
(***************************************************************************)
Call(c, res) ==
  [op |-> c.op, key |-> c.key, val |-> c.val, cache |-> c.cache, res |-> res,
   kase |-> c.kase, pre |-> c.pre, preHdr |-> c.preHdr, preHas |-> c.preHas,
   preSize |-> c.preSize,
   preCount |-> c.preCount, expect |-> c.expect, expect2 |-> c.expect2,
   hw |-> c.hw, fresh |-> c.fresh, preNext |-> c.preNext, preVals |-> c.preVals,
   preHdrs |-> c.preHdrs, dptr |-> c.dptr, hdrTag |-> c.hdrTag]

\* of the call before the last one only the arguments, the branch and the
\* result are kept
Brief(c) ==
  [NoCall EXCEPT !.op = c.op, !.key = c.key, !.val = c.val, !.cache = c.cache,
                 !.res = c.res, !.kase = c.kase]

\* the public call returns res to its caller
Ret(L, res) ==
  [L EXCEPT !.log = [prev |-> Brief(L.log.last), last |-> Call(L.cl, res)],
            !.cl = idleCl]

\* where the substrate holds key k: the first listed header with k in dataptr
HolderOf(h, k) ==
  LET S == {n \in DOMAIN h : k \in DOMAIN h[n].dataptr}
  IN IF S = {} THEN -1 ELSE CHOOSE n \in S : \A m \in S : n <= m

PtrOf(h, k) ==
  IF HolderOf(h, k) = -1 THEN NoPtr ELSE expandDP2(h[HolderOf(h, k)].dataptr[k])

\* what get(k) returns when nothing else runs: findDataPtr, then getData
GetAtRest(h, d, k) ==
  LET p == PtrOf(h, k)
  IN IF HolderOf(h, k) = -1 THEN Undefined
     ELSE IF p.tag \in DOMAIN d /\ p.id \in DOMAIN d[p.tag].data
          THEN ValRes(d[p.tag].data[p.id])
          ELSE Undefined

\* first fit over blocks for an entry of the given size, -1 when none fits
FirstFit(blocks, d, size) ==
  LET S == {p \in DOMAIN blocks : TagOr(d, blocks[p]).size + size < MAX_TAG_SIZE}
  IN IF S = {} THEN -1 ELSE blocks[CHOOSE p \in S : \A q \in S : p <= q]

NewTagNum(blocks) == IF Len(blocks) > 0 THEN SeqMax(blocks) + 1 ELSE 0

(***************************************************************************)
(* set, after findEmptyTag returned tag t.                                 *)
(***************************************************************************)
\* updateKeyHdr(hdrTag, key, dptr); updateKeyTag(dptr, value); return
finishSet(L, n) ==
  LET L1 == [L EXCEPT !.cl.hdrTag = n]
      L2 == updateKeyHdr(L1, n, L1.cl.key, L1.cl.dptr)
  IN Ret(updateKeyTag(L2, L2.cl.dptr, L2.cl.val), Undefined)

\* dptr.tag = t: the background deleteKeyTag of this call shares dptr
afterTag(L, t) ==
  LET seen == BagToSet(L.tasks)
      moved(x) == IF x.shared THEN [x EXCEPT !.cur = t, !.shared = FALSE] ELSE x
      ts == {moved(x) : x \in seen}
      L1 == [L EXCEPT !.cl.dptr.tag = t,
                      !.tasks = [y \in ts |->
                                   LET from == {x \in seen : moved(x) = y}
                                   IN SumOver(from, [x \in from |-> L.tasks[x]])]]
  IN IF L1.cl.hdrTag = -1
     THEN [L1 EXCEPT !.cl.hdrSize = sizeofKeyPtr(L1.cl.key, L1.cl.dptr),
                     !.cl.pc = "feh_list"]
     ELSE finishSet(L1, L1.cl.hdrTag)

\* allFailed of findEmptyTag: a new bucket, registered unless "in" finds it
newTag(L) ==
  LET t == NewTagNum(L.cl.blocks)
      L1 == IF ~InArray(t, L.cl.blocks) THEN addBlock(L, t) ELSE L
  IN afterTag([L1 EXCEPT !.cl.fresh = TRUE], t)

(***************************************************************************)
(* After findDataPtr / findKeyHeader: the key was found in header n (with  *)
(* pointer dp2) or in no header.                                           *)
(***************************************************************************)
afterFind(L, found, n, dp2) ==
  LET dptr == IF found THEN expandDP2(dp2) ELSE NoPtr
      L1 == [L EXCEPT !.cl.dptr = dptr, !.cl.hdrTag = IF found THEN n ELSE -1,
                      !.cl.hl = <<>>, !.cl.i = 0]
  IN CASE L.cl.op = "get" ->
            IF ~found THEN Ret([L1 EXCEPT !.cl.kase = "absent"], Undefined)
            ELSE IF L.cl.cache /\ dptr.tag \in DOMAIN L.dc
                 THEN Ret([L1 EXCEPT !.cl.kase = "hit"], RecRes(L.dc[dptr.tag]))
                 ELSE [L1 EXCEPT !.cl.pc = "getData"]
       [] L.cl.op = "set" ->
            IF found THEN [L1 EXCEPT !.cl.pc = "fit"]
            ELSE [L1 EXCEPT !.cl.pc = "incr", !.cl.kase = "new", !.hc = Del(@, 0)]
       [] OTHER ->
            IF ~found THEN Ret([L1 EXCEPT !.cl.kase = "absent"], Undefined)
            ELSE LET L2 == deleteKeyHdr([L1 EXCEPT !.cl.kase = "found"], n, L.cl.key)
                 IN Ret(deleteKeyTag(L2, dptr, FALSE), Undefined)

(***************************************************************************)
(* Initial state: an empty namespace, empty caches, nothing running.       *)
(***************************************************************************)
Init ==
  /\ hdrs = Empty
  /\ dats = Empty
  /\ headerCache = Empty
  /\ dataCache = Empty
  /\ pending = EmptyBag
  /\ tasks = EmptyBag
  /\ cl = idleCl
  /\ log = [prev |-> NoCall, last |-> NoCall]
  /\ issued = {}
  /\ reissued = FALSE
  /\ early = 0
  /\ ncalls = 0
  /\ other = idleCl
  /\ probe = NoProbe

\* the caller awaits every call, but the writes a call fired may still be in
\* flight when the next call starts
MayStart == InFlight = 0 \/ (early < MaxEarly /\ InFlight <= MaxInFlight)
Serial == early = 0

(***************************************************************************)
(* A public call starts.  It runs to its first await (kv.list).            *)
(***************************************************************************)
Begin(op, k, v, c) ==
  LET holder == HolderOf(hdrs, k)
      pre == PtrOf(hdrs, k)
      id == IF holder = -1 THEN num2str(HdrOr(hdrs, 0).nextID) ELSE pre.id
      blocks == HdrOr(hdrs, 0).blocks
      ff == FirstFit(blocks, dats, EntrySize(id, TRUE, v))
      ff2 == FirstFit(blocks, deleteKeyTagFn(dats, pre.tag, pre.id),
                      EntrySize(id, TRUE, v))
  IN /\ cl.pc = "idle"
     /\ MayStart
     /\ ncalls < MaxCalls
     /\ ncalls' = ncalls + 1
     /\ cl' = [idleCl EXCEPT !.pc = "list", !.op = op, !.key = k, !.val = v,
                             !.cache = c, !.pre = pre, !.preHdr = holder,
                             !.preHas = pre.id \in DOMAIN TagOr(dats, pre.tag).data,
                             !.preSize = TagOr(dats, pre.tag).size,
                             !.preCount = Cardinality(DOMAIN TagOr(dats, pre.tag).data),
                             !.expect = IF op # "set" THEN -1
                                        ELSE IF ff # -1 THEN ff ELSE NewTagNum(blocks),
                             !.expect2 = IF op # "set" THEN -1
                                         ELSE IF ff2 # -1 THEN ff2 ELSE NewTagNum(blocks),
                             !.preNext = IF op \in {"set", "delete"}
                                         THEN HdrOr(hdrs, 0).nextID ELSE FirstID,
                             !.preVals = [x \in Keys |->
                                            IF op \in {"set", "delete"}
                                            THEN GetAtRest(hdrs, dats, x)
                                            ELSE Undefined],
                             !.preHdrs = IF op = "set" /\ holder = -1
                                         THEN hdrs ELSE Empty]
     /\ early' = IF InFlight = 0 THEN early ELSE early + 1
     /\ UNCHANGED <<hdrs, dats, headerCache, dataCache, pending, tasks, log,
                    issued, reissued,
                 other, probe>>

StartGet == \E k \in Keys : Begin("get", k, NoVal, FALSE)
StartGetCached == \E k \in Keys : Begin("get", k, NoVal, TRUE)
StartSet == \E k \in Keys, v \in Values : Begin("set", k, v, FALSE)
StartDelete == \E k \in Keys : Begin("delete", k, NoVal, FALSE)
StartNumKeys == Begin("numKeys", NoKey, NoVal, FALSE)

\* a clear that removes the bucket records only
ClearBucketsOnly ==
  /\ cl.pc = "idle"
  /\ MayStart
  /\ ncalls < MaxCalls
  /\ ncalls' = ncalls + 1
  /\ dats' = Empty
  /\ log' = [prev |-> Brief(log.last),
             last |-> [NoCall EXCEPT !.op = "clear", !.res = Undefined]]
  /\ early' = IF InFlight = 0 THEN early ELSE early + 1
  /\ issued' = {}
  /\ UNCHANGED <<hdrs, headerCache, dataCache, pending, tasks, cl, reissued,
                 other, probe>>

\* clear(): return kv.clear()
Clear ==
  /\ cl.pc = "idle"
  /\ MayStart
  /\ ncalls < MaxCalls
  /\ ncalls' = ncalls + 1
  /\ hdrs' = Empty
  /\ dats' = Empty
  /\ log' = [prev |-> Brief(log.last),
             last |-> [NoCall EXCEPT !.op = "clear", !.res = Undefined]]
  /\ early' = IF InFlight = 0 THEN early ELSE early + 1
  /\ issued' = {}
  /\ UNCHANGED <<headerCache, dataCache, pending, tasks, cl, reissued,
                 other, probe>>

(***************************************************************************)
(* findKeyHeader and listKeys: kv.list, then getHeader of each listed tag. *)
(***************************************************************************)
ListStep ==
  /\ cl.pc = "list"
  /\ LET hl == ListHeaders
     IN Store(IF hl = <<>>
              THEN IF cl.op = "numKeys" THEN Ret(Local, NumRes(0))
                   ELSE afterFind(Local, FALSE, -1, <<>>)
              ELSE [Local EXCEPT !.cl.hl = hl, !.cl.i = 1,
                                 !.cl.pc = IF cl.op = "numKeys" THEN "nk_scan"
                                           ELSE "scan"])
  /\ UNCHANGED <<hdrs, dats, issued, reissued, early, ncalls,
                 other, probe>>

\* a findKeyHeader that looks at the first listed header only
ScanStepFirstOnly ==
  /\ cl.pc = "scan"
  /\ LET n == cl.hl[cl.i]
         hdr == getHeaderRec(Local, hdrs, n, FALSE)
         L1 == getHeader(Local, hdrs, n, FALSE)
     IN Store(IF cl.key \in DOMAIN hdr.dataptr
              THEN afterFind(L1, TRUE, n, hdr.dataptr[cl.key])
              ELSE afterFind(L1, FALSE, -1, <<>>))
  /\ UNCHANGED <<hdrs, dats, issued, reissued, early, ncalls,
                 other, probe>>

ScanStep ==
  /\ cl.pc = "scan"
  /\ LET n == cl.hl[cl.i]
         hdr == getHeaderRec(Local, hdrs, n, FALSE)
         L1 == getHeader(Local, hdrs, n, FALSE)
     IN Store(IF cl.key \in DOMAIN hdr.dataptr
              THEN afterFind(L1, TRUE, n, hdr.dataptr[cl.key])
              ELSE IF cl.i < Len(cl.hl) THEN [L1 EXCEPT !.cl.i = @ + 1]
              ELSE afterFind(L1, FALSE, -1, <<>>))
  /\ UNCHANGED <<hdrs, dats, issued, reissued, early, ncalls,
                 other, probe>>

\* listKeys / numKeys: the headers are read one after the other
NumKeysStep ==
  /\ cl.pc = "nk_scan"
  /\ LET n == cl.hl[cl.i]
         hdr == getHeaderRec(Local, hdrs, n, FALSE)
         L1 == getHeader(Local, hdrs, n, FALSE)
         cnt == cl.count + Cardinality(DOMAIN hdr.dataptr)
     IN Store(IF cl.i < Len(cl.hl)
              THEN [L1 EXCEPT !.cl.i = @ + 1, !.cl.count = cnt]
              ELSE Ret(L1, NumRes(cnt)))
  /\ UNCHANGED <<hdrs, dats, issued, reissued, early, ncalls,
                 other, probe>>

(***************************************************************************)
(* getData: the awaited kv.get of the bucket.                              *)
(***************************************************************************)
GetDataStep ==
  /\ cl.pc = "getData"
  /\ LET n == cl.dptr.tag
         has == n \in DOMAIN dats
         L1 == IF has THEN [Local EXCEPT !.dc = Upd(@, n, dats[n])] ELSE Local
     IN Store(IF has /\ cl.dptr.id \in DOMAIN dats[n].data
              THEN Ret([L1 EXCEPT !.cl.kase = "read"], ValRes(dats[n].data[cl.dptr.id]))
              ELSE Ret([L1 EXCEPT !.cl.kase = "dangling"], Undefined))
  /\ UNCHANGED <<hdrs, dats, issued, reissued, early, ncalls,
                 other, probe>>

(***************************************************************************)
(* set, existing key: itemUpdateWillFit, then update in place or move.     *)
(***************************************************************************)
itemUpdateWillFit(d, dptr, newValue) ==
  IF dptr.tag \notin DOMAIN d THEN FALSE
  ELSE LET datum == d[dptr.tag]
           has == dptr.id \in DOMAIN datum.data
           prevSize == EntrySize(dptr.id, has, IF has THEN datum.data[dptr.id] ELSE NoVal)
           newSize == EntrySize(dptr.id, TRUE, newValue)
       IN datum.size - prevSize + newSize < MAX_TAG_SIZE

FitStep ==
  /\ cl.pc = "fit"
  /\ Store(IF itemUpdateWillFit(dats, cl.dptr, cl.val)
           THEN Ret(updateKeyTag([Local EXCEPT !.cl.kase = "inplace"], cl.dptr, cl.val),
                    Undefined)
           ELSE LET L1 == deleteKeyTag(Local, cl.dptr, TRUE)
                IN [L1 EXCEPT !.cl.kase = "move", !.cl.pc = "fet_hdr",
                              !.cl.size = EntrySize(cl.dptr.id, TRUE, cl.val)])
  /\ UNCHANGED <<hdrs, dats, issued, reissued, early, ncalls,
                 other, probe>>

(***************************************************************************)
(* set, new key: the awaited incrementID transaction on header0.           *)
(***************************************************************************)
IncrStep ==
  /\ cl.pc = "incr"
  /\ LET n == HdrOr(hdrs, 0).nextID
         id == num2str(n)
     IN /\ n < FirstID + MaxIds
        /\ hdrs' = incrementIDFn(hdrs)
        /\ cl' = [cl EXCEPT !.dptr.id = id, !.pc = "fet_hdr", !.hw = TRUE,
                            !.size = EntrySize(id, TRUE, cl.val)]
        /\ issued' = issued \cup {<<id, cl.key>>}
        /\ reissued' = (reissued \/ \E p \in issued : p[1] = id /\ p[2] # cl.key)
  /\ UNCHANGED <<dats, headerCache, dataCache, pending, tasks, log, early, ncalls,
                 other, probe>>

(***************************************************************************)
(* findEmptyTag: getHeader('header0'), then the buckets of hdr.blocks.     *)
(***************************************************************************)
FindTagHdrStep ==
  /\ cl.pc = "fet_hdr"
  /\ LET hdr == getHeaderRec(Local, hdrs, 0, FALSE)
         L1 == [getHeader(Local, hdrs, 0, FALSE) EXCEPT !.cl.blocks = hdr.blocks]
     IN IF hdr.blocks = <<>>
        THEN /\ NewTagNum(hdr.blocks) <= MaxTag
             /\ Store(newTag(L1))
        ELSE Store([L1 EXCEPT !.cl.pc = "fet_scan", !.cl.j = 1])
  /\ UNCHANGED <<hdrs, dats, issued, reissued, early, ncalls,
                 other, probe>>

FindTagScanStep ==
  /\ cl.pc = "fet_scan"
  /\ LET b == cl.blocks[cl.j]
         L1 == [Local EXCEPT !.cl.blocks = <<>>, !.cl.j = 0]
     IN IF TagOr(dats, b).size + cl.size < MAX_TAG_SIZE
        THEN Store(afterTag(L1, b))
        ELSE IF cl.j < Len(cl.blocks)
        THEN Store([Local EXCEPT !.cl.j = @ + 1])
        ELSE /\ NewTagNum(cl.blocks) <= MaxTag
             /\ Store([newTag(Local) EXCEPT !.cl.blocks = <<>>, !.cl.j = 0])
  /\ UNCHANGED <<hdrs, dats, issued, reissued, early, ncalls,
                 other, probe>>

(***************************************************************************)
(* findEmptyHdr: kv.list, then the first header with room, else a new one. *)
(***************************************************************************)
FindHdrListStep ==
  /\ cl.pc = "feh_list"
  /\ LET hl == ListHeaders
     IN IF hl = <<>>
        THEN Store(finishSet(Local, getNewHeader(hl)))
        ELSE Store([Local EXCEPT !.cl.hl = hl, !.cl.i = 1, !.cl.pc = "feh_scan"])
  /\ UNCHANGED <<hdrs, dats, issued, reissued, early, ncalls,
                 other, probe>>

\* a variant that takes a new header as soon as the first listed header has
\* no room
FindHdrScanStepFirstOnly ==
  /\ cl.pc = "feh_scan"
  /\ LET n == cl.hl[cl.i]
         hdr == getHeaderRec(Local, hdrs, n, FALSE)
         L1 == getHeader(Local, hdrs, n, FALSE)
         L2 == [L1 EXCEPT !.cl.hl = <<>>, !.cl.i = 0]
     IN IF sizeofHdr(hdr) + cl.hdrSize < MAX_TAG_SIZE
        THEN Store(finishSet(L2, n))
        ELSE /\ getNewHeader(cl.hl) <= MaxHdr
             /\ Store(finishSet(L2, getNewHeader(cl.hl)))
  /\ UNCHANGED <<hdrs, dats, issued, reissued, early, ncalls,
                 other, probe>>

FindHdrScanStep ==
  /\ cl.pc = "feh_scan"
  /\ LET n == cl.hl[cl.i]
         hdr == getHeaderRec(Local, hdrs, n, FALSE)
         L1 == getHeader(Local, hdrs, n, FALSE)
         L2 == [L1 EXCEPT !.cl.hl = <<>>, !.cl.i = 0]
     IN IF sizeofHdr(hdr) + cl.hdrSize < MAX_TAG_SIZE
        THEN Store(finishSet(L2, n))
        ELSE IF cl.i < Len(cl.hl)
        THEN Store([L1 EXCEPT !.cl.i = @ + 1])
        ELSE /\ getNewHeader(cl.hl) <= MaxHdr
             /\ Store(finishSet(L2, getNewHeader(cl.hl)))
  /\ UNCHANGED <<hdrs, dats, issued, reissued, early, ncalls,
                 other, probe>>

(***************************************************************************)
(* deleteKeyTag in the background: the awaited transaction, the awaited    *)
(* kv.get, then removeBlock(dptr.tag) when the bucket is gone.             *)
(***************************************************************************)
TaskTxnStep ==
  \E t \in BagToSet(tasks) :
    /\ t.stage = "txn"
    /\ dats' = deleteKeyTagFn(dats, t.tag, t.id)
    /\ tasks' = (tasks (-) SetToBag({t})) (+) SetToBag({[t EXCEPT !.stage = "get"]})
    /\ UNCHANGED <<hdrs, headerCache, dataCache, pending, cl, log, issued,
                   reissued, early, ncalls,
                 other, probe>>

TaskGetStep ==
  \E t \in BagToSet(tasks) :
    /\ t.stage = "get"
    /\ LET L0 == [Local EXCEPT !.tasks = @ (-) SetToBag({t})]
       IN Store(IF t.tag \notin DOMAIN dats THEN removeBlock(L0, t.cur) ELSE L0)
    /\ UNCHANGED <<hdrs, dats, issued, reissued, early, ncalls,
                 other, probe>>

(***************************************************************************)
(* The substrate applies a transaction that nobody awaits.                 *)
(***************************************************************************)
Commit ==
  \E t \in BagToSet(pending) :
    /\ pending' = pending (-) SetToBag({t})
    /\ hdrs' = CASE t.t = "put" -> putHeaderFn(hdrs, t.n)
                 [] t.t = "updateKeyHdr" -> updateKeyHdrFn(hdrs, t.n, t.k, t.dp)
                 [] t.t = "deleteKeyHdr" -> deleteKeyHdrFn(hdrs, t.n, t.k)
                 [] t.t = "addBlock" -> addBlockFn(hdrs, t.n)
                 [] t.t = "removeBlock" -> removeBlockFn(hdrs, t.n)
                 [] OTHER -> hdrs
    /\ dats' = IF t.t = "updateKeyTag" THEN updateKeyTagFn(dats, t.n, t.id, t.v)
               ELSE dats
    /\ UNCHANGED <<headerCache, dataCache, tasks, cl, log, issued, reissued, early,
                   ncalls,
                 other, probe>>

\* what runs once calls have started
Run ==
  \/ ListStep
  \/ ScanStep
  \/ NumKeysStep
  \/ GetDataStep
  \/ FitStep
  \/ IncrStep
  \/ FindTagHdrStep
  \/ FindTagScanStep
  \/ FindHdrListStep
  \/ FindHdrScanStep
  \/ TaskTxnStep
  \/ TaskGetStep
  \/ Commit

\* a caller that awaits each public call before it issues the next one
Next ==
  \/ StartGet
  \/ StartGetCached
  \/ StartSet
  \/ StartDelete
  \/ StartNumKeys
  \/ Clear
  \/ Run

Spec == Init /\ [][Next]_vars

\* nothing is in flight and no call is running
AtRest == cl.pc = "idle" /\ InFlight = 0

(***************************************************************************)
(* C1.  Round trip.                                                        *)
(***************************************************************************)
\* the last two completed calls were set(k, v) and then get(k)
SetThenGet ==
  /\ log.prev.op = "set"
  /\ log.last.op = "get"
  /\ log.last.key = log.prev.key

\* C1: a get(k) that follows set(k, v) returns v, even when every call so far
\* started with nothing in flight
C1_RoundTrip == (Serial /\ SetThenGet) => log.last.res = ValRes(log.prev.val)

(***************************************************************************)
(* C2.  Deletion.                                                          *)
(***************************************************************************)
\* the last two completed calls were delete(k) and then get(k)
DeleteThenGet ==
  /\ log.prev.op = "delete"
  /\ log.last.op = "get"
  /\ log.last.key = log.prev.key

\* the last completed call deleted a key whose entry was alone in its bucket
DeletedLastEntry ==
  /\ log.last.op = "delete"
  /\ log.last.kase = "found"
  /\ log.last.preHas
  /\ log.last.preCount = 1

Respected(rec) ==
  (rec.size >= MAX_TAG_SIZE \/ sizeofTag(rec) >= MAX_TAG_SIZE)
    => Cardinality(DOMAIN rec.data) = 1

\* C3: once a set has returned and its writes have been applied, no bucket
\* reaches MAX_TAG_SIZE unless it holds a single value
C3_CapacityRespect ==
  (Serial /\ AtRest /\ log.last.op = "set") => \A n \in DOMAIN dats : Respected(dats[n])

(***************************************************************************)
(* C4.  Id uniqueness.                                                     *)
(***************************************************************************)
\* C4: incrementID never gives a new key the id it gave another key (since
\* the last clear), even when every call started with nothing in flight
C4_IdUniqueness == Serial => ~reissued

(***************************************************************************)
(* C5.  Move on overflow.                                                  *)
(***************************************************************************)
\* the last completed call was a set of a stored key whose new value did not
\* fit in its bucket
Moved ==
  /\ log.last.op = "set"
  /\ log.last.kase = "move"
  /\ log.last.preHas

\* C5: after such a set, and once its writes have been applied, the key's
\* pointer names another bucket, keeps its id, and the old bucket is smaller
\* or gone
C5_MoveOnOverflow ==
  (Serial /\ AtRest /\ Moved) =>
    LET p == PtrOf(hdrs, log.last.key)
        old == log.last.pre
    IN /\ p.tag # old.tag
       /\ p.id = old.id
       /\ (old.tag \notin DOMAIN dats \/ dats[old.tag].size < log.last.preSize)

(***************************************************************************)
(* C6.  In-place update.                                                   *)
(***************************************************************************)
\* the last completed call was a set of a stored key whose new value fits
InPlace ==
  /\ log.last.op = "set"
  /\ log.last.kase = "inplace"

\* C6: an in-place set writes no header record, and when every call started
\* with nothing in flight the key's pointer is afterwards what it was before
C6_InPlace ==
  (cl.pc = "idle" /\ InPlace) =>
    /\ ~log.last.hw
    /\ (Serial /\ InFlight = 0) =>
         /\ PtrOf(hdrs, log.last.key) = log.last.pre
         /\ PtrOf(hdrs, log.last.key) = log.last.dptr

(***************************************************************************)
(* C7.  Corruption fault.                                                  *)
(***************************************************************************)
\* the last completed call was a get that found its key in a header, and the
\* bucket or the id the pointer names did not exist
Dangling ==
  /\ log.last.op = "get"
  /\ log.last.kase = "dangling"

\* C7: a get whose pointer names a bucket or id that does not exist does not
\* return what a get of a key that was never stored returns, even when every
\* call started with nothing in flight
C7_CorruptionFault == (Serial /\ Dangling) => log.last.res # Undefined

(***************************************************************************)
(* C8.  Clear.                                                             *)
(***************************************************************************)
\* the call before the last completed one was clear()
AfterClear == log.prev.op = "clear"

\* what a get or numKeys returns on an empty namespace
Cleared ==
  /\ log.last.op = "get" => log.last.res = Undefined
  /\ log.last.op = "numKeys" => log.last.res = NumRes(0)

\* C8 as stated: after clear() a get returns absent, with or without the
\* cache flag, and numKeys returns 0
C8_Clear == AfterClear => Cleared

\* C8, at rest: when clear() is called with nothing in flight, a get after
\* it returns absent, with or without the cache flag, and numKeys returns 0
C8_ClearAtRest == (Serial /\ AfterClear) => Cleared

\* clear() was called at rest after a bucket had been read, and a cached get
\* after it returned absent
C8_Witness ==
  /\ Serial
  /\ AfterClear
  /\ log.last.op = "get"
  /\ log.last.cache
  /\ dataCache # Empty
  /\ log.last.res = Undefined

(***************************************************************************)
(* C9.  First-fit bucket placement.                                        *)
(***************************************************************************)
\* the last completed call was a set that looked for a bucket
Placed ==
  /\ log.last.op = "set"
  /\ log.last.kase \in {"new", "move"}

\* the values of header0.blocks
Registered == {HdrOr(hdrs, 0).blocks[p] : p \in DOMAIN HdrOr(hdrs, 0).blocks}

\* C9: a set that looks for a bucket takes the first bucket of blocks with
\* room (for a moved key: with or without its old entry), else the bucket
\* max(blocks)+1, and once its writes are applied that new bucket is in blocks
C9_FirstFit ==
  (Serial /\ AtRest /\ Placed) =>
    /\ log.last.dptr.tag \in {log.last.expect, log.last.expect2}
    /\ log.last.fresh => log.last.dptr.tag \in Registered

(***************************************************************************)
(* C10.  Cached get agrees with uncached get.                              *)
(***************************************************************************)
\* the last two completed calls were get(k) and then get(k, true)
GetThenCachedGet ==
  /\ log.prev.op = "get"
  /\ ~log.prev.cache
  /\ log.last.op = "get"
  /\ log.last.cache
  /\ log.last.key = log.prev.key

\* C10: get(k, true) returns what the get(k) before it returned
C10_CachedGetAgrees == (Serial /\ GetThenCachedGet) => log.last.res = log.prev.res

(***************************************************************************)
(* The pure functions of the module on their own: the pointer codec        *)
(* (num2str, str2num, compressDataPtr, expandDP2) and getNewHeader, each   *)
(* applied to an input drawn from a bounded set.                           *)
(***************************************************************************)
\* header slots of the examined header lists are 0 .. MaxSlot
MaxSlot == 4

\* num2str(n) is one code unit exactly when n < 65535
InUnit(tag) == tag + FirstID < CodeBase

\* bucket numbers: the first ones, and the ones around the last one-unit code
ProbeTags ==
  (0..MaxTag)
    \cup {CodeBase - FirstID - 1 - t : t \in 0..MaxTag}
    \cup {CodeBase - FirstID + t : t \in 0..MaxTag}

\* counter values: the first ones and the ones around one and two digits
ProbeNums ==
  (0..MaxIds)
    \cup {FirstID + t : t \in 0..MaxIds}
    \cup {CodeBase - 1 + t : t \in 0..MaxIds}
    \cup {CodeBase * FirstID - 1 + t : t \in 0..MaxIds}

\* ids are what num2str makes of a counter value from nextID: 161 on
ProbeIds == {num2str(n) : n \in {m \in ProbeNums : m >= FirstID}}

\* the header numbers kv.list can give: header0 first, the others in any order
Perms(S) ==
  {f \in [1..Cardinality(S) -> S] : \A x, y \in DOMAIN f : f[x] = f[y] => x = y}

ProbeLists == {<<0>> \o f : f \in UNION {Perms(S) : S \in SUBSET (1..MaxSlot)}}

PureInit ==
  /\ hdrs = Empty
  /\ dats = Empty
  /\ headerCache = Empty
  /\ dataCache = Empty
  /\ pending = EmptyBag
  /\ tasks = EmptyBag
  /\ cl = idleCl
  /\ log = [prev |-> NoCall, last |-> NoCall]
  /\ issued = {}
  /\ reissued = FALSE
  /\ early = 0
  /\ ncalls = 0
  /\ other = idleCl
  /\ probe \in
       {[NoProbe EXCEPT !.fn = "codec", !.stage = "in", !.ptr = [tag |-> t, id |-> i]] :
          t \in ProbeTags, i \in ProbeIds}
       \cup {[NoProbe EXCEPT !.fn = "num", !.stage = "in", !.n = n] : n \in ProbeNums}
       \cup {[NoProbe EXCEPT !.fn = "slot", !.stage = "in", !.nums = l] : l \in ProbeLists}

\* updateKeyHdr stores compressDataPtr(dp)
CompressStep ==
  /\ probe.fn = "codec"
  /\ probe.stage = "in"
  /\ probe' = [probe EXCEPT !.dp2 = compressDataPtr(probe.ptr), !.stage = "packed"]
  /\ UNCHANGED <<hdrs, dats, headerCache, dataCache, pending, tasks, cl, log,
                 issued, reissued, early, ncalls, other>>

\* findDataPtr reads it back with expandDP2
ExpandStep ==
  /\ probe.fn = "codec"
  /\ probe.stage = "packed"
  /\ probe' = [probe EXCEPT !.back = expandDP2(probe.dp2), !.stage = "done"]
  /\ UNCHANGED <<hdrs, dats, headerCache, dataCache, pending, tasks, cl, log,
                 issued, reissued, early, ncalls, other>>

Num2StrStep ==
  /\ probe.fn = "num"
  /\ probe.stage = "in"
  /\ probe' = [probe EXCEPT !.s = num2str(probe.n), !.stage = "packed"]
  /\ UNCHANGED <<hdrs, dats, headerCache, dataCache, pending, tasks, cl, log,
                 issued, reissued, early, ncalls, other>>

Str2NumStep ==
  /\ probe.fn = "num"
  /\ probe.stage = "packed"
  /\ probe' = [probe EXCEPT !.m = str2num(probe.s), !.stage = "done"]
  /\ UNCHANGED <<hdrs, dats, headerCache, dataCache, pending, tasks, cl, log,
                 issued, reissued, early, ncalls, other>>

\* findEmptyHdr's allFailed: getNewHeader(headers.map(hdrNum))
NewHeaderStep ==
  /\ probe.fn = "slot"
  /\ probe.stage = "in"
  /\ probe' = [probe EXCEPT !.slot = getNewHeader(probe.nums), !.stage = "done"]
  /\ UNCHANGED <<hdrs, dats, headerCache, dataCache, pending, tasks, cl, log,
                 issued, reissued, early, ncalls, other>>

PureNext ==
  \/ CompressStep
  \/ ExpandStep
  \/ Num2StrStep
  \/ Str2NumStep
  \/ NewHeaderStep

PureSpec == PureInit /\ [][PureNext]_vars

(***************************************************************************)
(* C11.  Pointer codec round trip.                                         *)
(***************************************************************************)
\* the pointer was compressed and expanded again
Decoded == probe.fn = "codec" /\ probe.stage = "done"

\* C11: a pointer whose bucket number plus 161 is below 65535 (one code unit)
\* and whose id is not empty comes back unchanged from compressDataPtr and
\* expandDP2, and str2num(num2str(n)) = n
C11_CodecRoundTrip ==
  /\ (Decoded /\ InUnit(probe.ptr.tag) /\ probe.ptr.id # <<>>) => probe.back = probe.ptr
  /\ (probe.fn = "num" /\ probe.stage = "done") => probe.m = probe.n

\* the largest one-unit bucket number with a two-unit id made the round trip
C11_Witness ==
  /\ Decoded
  /\ probe.ptr.tag = CodeBase - FirstID - 1
  /\ Len(probe.ptr.id) = 2
  /\ Len(probe.dp2) = 3
  /\ probe.back = probe.ptr

(***************************************************************************)
(* C12.  Smallest missing header slot.                                     *)
(***************************************************************************)
\* the slot numbers of a list
Slots(nums) == {nums[p] : p \in DOMAIN nums}

\* C12: for a list of distinct slot numbers with header0 first, getNewHeader
\* returns the smallest positive integer that is not in the list
C12_SmallestMissing ==
  (probe.fn = "slot" /\ probe.stage = "done") =>
    /\ probe.slot > 0
    /\ probe.slot \notin Slots(probe.nums)
    /\ \A m \in 1..(probe.slot - 1) : m \in Slots(probe.nums)

\* a list with a gap that is neither its first nor its last position, listed
\* out of numeric order
C12_Witness ==
  /\ probe.fn = "slot"
  /\ probe.stage = "done"
  /\ probe.nums = <<0, 3, 1, 4>>
  /\ probe.slot = 2

(***************************************************************************)
(* C13.  Capacity fault.                                                   *)
(***************************************************************************)
\* C13: compressDataPtr has no fault path, so the claim comes to: what it
\* returns for a bucket number beyond the one-unit range never expands to
\* another pointer
C13_CapacityFault ==
  (Decoded /\ ~InUnit(probe.ptr.tag)) => probe.back = probe.ptr

(***************************************************************************)
(* C14.  Headers are never deleted.                                        *)
(***************************************************************************)
\* the step is a clear(): kv.clear() empties the namespace
ClearStep == ncalls' = ncalls + 1 /\ hdrs' = Empty /\ dats' = Empty

\* C14: no step other than a clear() removes a header record that exists,
\* even when every call started with nothing in flight
C14_HeadersKept ==
  [][(early' = 0 /\ ~ClearStep) => DOMAIN hdrs \subseteq DOMAIN hdrs']_vars

(***************************************************************************)
(* C15.  Bucket release.                                                   *)
(***************************************************************************)
\* the last completed call took the only entry out of its key's bucket: a
\* delete, or a set that moved the key to another bucket
Released ==
  /\ log.last.preHas
  /\ log.last.preCount = 1
  /\ \/ log.last.op = "delete" /\ log.last.kase = "found"
     \/ log.last.op = "set" /\ log.last.kase = "move"
          /\ log.last.dptr.tag # log.last.pre.tag

\* C15: once the writes of such a call have been applied, the emptied bucket
\* record is gone, its number is no longer in header0.blocks, and header0
\* still exists with the nextID it had
C15_BucketRelease ==
  (Serial /\ AtRest /\ Released) =>
    /\ log.last.pre.tag \notin DOMAIN dats
    /\ log.last.pre.tag \notin Registered
    /\ 0 \in DOMAIN hdrs
    /\ hdrs[0].nextID = log.last.preNext

(***************************************************************************)
(* C16.  Ids are never recycled.                                           *)
(***************************************************************************)
\* C16: no step other than a clear() lowers the nextID that incrementID
\* reads from header0 (161 when the record is absent), and no step gives a
\* key an id that another key was given, even when every call started with
\* nothing in flight
C16_NoRecycling ==
  [][(early' = 0 /\ ~ClearStep) =>
       /\ HdrOr(hdrs', 0).nextID >= HdrOr(hdrs, 0).nextID
       /\ reissued' => reissued]_vars

(***************************************************************************)
(* C17.  One header per key.                                               *)
(***************************************************************************)
\* the headers whose dataptr has key k
HoldersOf(h, k) == {n \in DOMAIN h : k \in DOMAIN h[n].dataptr}

OneHeader == \A k \in Keys : Cardinality(HoldersOf(hdrs, k)) <= 1

\* the last completed call was a set of a key that a header held
SetExisting ==
  /\ cl.pc = "idle"
  /\ log.last.op = "set"
  /\ log.last.kase \in {"inplace", "move"}

\* C17 as stated: in every state a key is in the dataptr of at most one
\* header, and once the writes of a set of a stored key have been applied the
\* key is in no header but the one the call found it in
C17_OneHeader ==
  /\ OneHeader
  /\ (SetExisting /\ InFlight = 0) =>
       HoldersOf(hdrs, log.last.key) \subseteq {log.last.hdrTag}

\* C17, serial: when every call started with nothing in flight, a key is in
\* the dataptr of at most one header in every state, and a set of a stored key
\* writes its pointer to the header that held the key when the call started
\* and leaves the key in no other header
C17_OneHeaderSerial ==
  Serial =>
    /\ OneHeader
    /\ SetExisting =>
         /\ log.last.hdrTag = log.last.preHdr
         /\ HoldersOf(hdrs, log.last.key) \subseteq {log.last.preHdr}

\* a key that lives in a secondary header was moved to another bucket and is
\* still held by that header alone, while header0 holds the other key
C17_Witness ==
  /\ Serial
  /\ AtRest
  /\ SetExisting
  /\ log.last.kase = "move"
  /\ log.last.preHdr > 0
  /\ HoldersOf(hdrs, log.last.key) = {log.last.preHdr}
  /\ \E k \in Keys : HoldersOf(hdrs, k) = {0}

(***************************************************************************)
(* C18.  delete(k) and a moving set(k, v) leave the other keys alone.      *)
(***************************************************************************)
\* the last completed call was a delete(k) of a key a header held, or a
\* set(k, v) that moved k
Removing ==
  \/ log.last.op = "delete" /\ log.last.kase = "found"
  \/ log.last.op = "set" /\ log.last.kase = "move"

\* C18: once the writes of such a call have been applied, a get of any other
\* key that had a value when the call started returns that value, even when
\* every call started with nothing in flight
C18_OthersKept ==
  (Serial /\ AtRest /\ Removing) =>
    \A k \in Keys \ {log.last.key} :
      log.last.preVals[k].kind = "value" =>
        GetAtRest(hdrs, dats, k) = log.last.preVals[k]

(***************************************************************************)
(* C19.  Move ordering.                                                    *)
(***************************************************************************)
\* a set has moved its key and the header already names the new bucket
MovedPointer ==
  /\ cl.pc = "idle"
  /\ log.last.op = "set"
  /\ log.last.kase = "move"
  /\ log.last.dptr.tag # log.last.pre.tag
  /\ PtrOf(hdrs, log.last.key) = log.last.dptr

\* C19: when the header names the new bucket of a moved key, that bucket
\* holds the key's id, even when every call started with nothing in flight
C19_MoveOrdering ==
  (Serial /\ MovedPointer) =>
    log.last.dptr.id \in DOMAIN TagOr(dats, log.last.dptr.tag).data

(***************************************************************************)
(* Two calls of set at once.  The runtime is single-threaded: a call runs  *)
(* until its next await, and then either call may be resumed.  cl is the   *)
(* call that runs, other the one that waits.                               *)
(***************************************************************************)
\* nothing is in flight and neither call is running
Quiet == AtRest /\ other.pc = "idle"

\* the runtime resumes the other call (or lets a second call start)
Switch ==
  /\ cl.pc # "idle" \/ other.pc # "idle"
  /\ cl' = other
  /\ other' = cl
  /\ UNCHANGED <<hdrs, dats, headerCache, dataCache, pending, tasks, log,
                 issued, reissued, early, ncalls, probe>>

\* the keys of the two calls: with two keys of 1960 characters both calls may
\* need a new header
ConcKeys == Keys \cup { <<"y", 1960>> }

\* one of the two calls starts: set(k, v) of a key that no header holds and
\* the other call does not set
ConcStartSet ==
  \E k \in ConcKeys, v \in Values :
    /\ ncalls < 2
    /\ HolderOf(hdrs, k) = -1
    /\ other.key # k
    /\ log.last.key # k
    /\ log.prev.key # k
    /\ Begin("set", k, v, FALSE)

\* get(k) once both sets have returned and their writes have been applied
ConcStartGet ==
  /\ Quiet
  /\ log.last.op = "set"
  /\ log.prev.op = "set"
  /\ \E k \in ConcKeys : Begin("get", k, NoVal, FALSE)

ConcNext ==
  \/ ConcStartSet
  \/ ConcStartGet
  \/ Switch
  \/ ListStep
  \/ ScanStep
  \/ GetDataStep
  \/ IncrStep
  \/ FindTagHdrStep
  \/ FindTagScanStep
  \/ FindHdrListStep
  \/ FindHdrScanStep
  \/ Commit

ConcSpec == Init /\ [][ConcNext]_vars

(***************************************************************************)
(* C20.  No lost update between two sets of distinct new keys.             *)
(***************************************************************************)
\* the two sets of distinct new keys have both returned
BothSet ==
  /\ log.prev.op = "set"
  /\ log.prev.kase = "new"
  /\ log.last.op = "set"
  /\ log.last.kase = "new"
  /\ log.prev.key # log.last.key

\* C20: once both sets have returned and their writes have been applied, a
\* get of each key returns the value that was set for it
C20_NoLostUpdate ==
  /\ (Quiet /\ BothSet) =>
       /\ GetAtRest(hdrs, dats, log.last.key) = ValRes(log.last.val)
       /\ GetAtRest(hdrs, dats, log.prev.key) = ValRes(log.prev.val)
  /\ (log.prev.op = "set" /\ log.last.op = "get" /\ log.last.key = log.prev.key) =>
       log.last.res = ValRes(log.prev.val)

\* the set that returned last took its id first, so the two calls overlapped;
\* both values went to one bucket and both keys read back their own value
C20_Witness ==
  /\ Quiet
  /\ BothSet
  /\ log.last.dptr.id = num2str(FirstID)
  /\ PtrOf(hdrs, log.prev.key).id = num2str(FirstID + 1)
  /\ PtrOf(hdrs, log.prev.key).tag = PtrOf(hdrs, log.last.key).tag
  /\ GetAtRest(hdrs, dats, log.last.key) = ValRes(log.last.val)
  /\ GetAtRest(hdrs, dats, log.prev.key) = ValRes(log.prev.val)

(***************************************************************************)
(* C21.  header0.blocks and the bucket records.                            *)
(***************************************************************************)
\* no number is twice in the list
NoDuplicates(arr) ==
  \A i, j \in 1..Len(arr) : arr[i] = arr[j] => i = j

\* C21: header0.blocks has no number twice, and when no call runs and no
\* write is in flight its numbers are exactly those of the bucket records
\* that exist, even when every call started with nothing in flight
C21_BlocksConsistent ==
  Serial =>
    /\ NoDuplicates(HdrOr(hdrs, 0).blocks)
    /\ AtRest => Registered = DOMAIN dats

(***************************************************************************)
(* C22.  No dangling pointers at rest.                                     *)
(***************************************************************************)
\* the pointer that header n keeps for key k names a bucket record that
\* exists and holds the pointer's id
PointerLands(n, k) ==
  LET dptr == expandDP2(hdrs[n].dataptr[k])
  IN  /\ dptr.tag \in DOMAIN dats
      /\ dptr.id \in DOMAIN dats[dptr.tag].data

\* C22: when every call started with nothing in flight, and no call runs and
\* no write is in flight, every pointer of every header lands
C22_NoDangling ==
  (Serial /\ AtRest) =>
    \A n \in DOMAIN hdrs : \A k \in DOMAIN hdrs[n].dataptr : PointerLands(n, k)

(***************************************************************************)
(* C23.  The last entry of a secondary header.                             *)
(***************************************************************************)
\* the step applies the deleteKeyHdr transaction t
UnassignStep(t) ==
  /\ t.t = "deleteKeyHdr"
  /\ BagIn(t, pending)
  /\ pending' = pending (-) SetToBag({t})
  /\ t.n \in DOMAIN hdrs
  /\ t.k \in DOMAIN hdrs[t.n].dataptr

\* C23: the unassign step of delete(k) leaves a secondary header that holds
\* k alone in place and unchanged, and takes k out of header0 even when k is
\* its last entry, the record staying
C23_LastEntryKept ==
  [][\A t \in BagToSet(pending) :
       (early' = 0 /\ UnassignStep(t)) =>
         IF t.n # 0 /\ DOMAIN hdrs[t.n].dataptr = {t.k}
           THEN t.n \in DOMAIN hdrs' /\ hdrs'[t.n] = hdrs[t.n]
           ELSE t.n = 0 =>
                  /\ 0 \in DOMAIN hdrs'
                  /\ t.k \notin DOMAIN hdrs'[0].dataptr]_vars

(***************************************************************************)
(* C24.  Cache invalidation.                                               *)
(***************************************************************************)
\* every cached header and bucket is the record the substrate holds
CachesCurrent ==
  /\ \A n \in DOMAIN headerCache :
       n \in DOMAIN hdrs /\ headerCache[n] = hdrs[n]
  /\ \A n \in DOMAIN dataCache :
       n \in DOMAIN dats /\ dataCache[n] = dats[n]

\* C24: when no call runs and every write issued has been applied, no cache
\* entry differs from its record, that is, none holds contents older than
\* the last write issued for the record, even when every call started with
\* nothing in flight
C24_CacheFresh ==
  (Serial /\ AtRest) => CachesCurrent

(***************************************************************************)
(* C25.  An id is allocated once per key.                                  *)
(***************************************************************************)
\* the last completed call was a set
SetDone ==
  /\ log.last.op = "set"
  /\ log.last.kase \in {"inplace", "move", "new"}

\* C25: once the writes of a set have been applied, header0.nextID is what it
\* was when the call started and the key has the id it had, when a header
\* held the key; it is one more when no header held the key; even when every
\* call started with nothing in flight
C25_IdOncePerKey ==
  (Serial /\ AtRest /\ SetDone) =>
    IF log.last.preHdr # -1
      THEN /\ HdrOr(hdrs, 0).nextID = log.last.preNext
           /\ PtrOf(hdrs, log.last.key).id = log.last.pre.id
      ELSE HdrOr(hdrs, 0).nextID = log.last.preNext + 1

(***************************************************************************)
(* Sets of new keys and deletes, one call at a time, with keys of several  *)
(* sizes: x fills header0, a and b are small, y and z fit no header that   *)
(* holds anything.                                                         *)
(***************************************************************************)
HdrKeys ==
  { <<"a", 1>>, <<"b", 1>>, <<"x", 1930>>, <<"y", 1960>>, <<"z", 1960>> }

\* set(k, 'ss') of a key that no header holds, started at rest
HdrStartSet ==
  \E k \in HdrKeys :
    /\ AtRest
    /\ HolderOf(hdrs, k) = -1
    /\ Begin("set", k, <<"s", 2>>, FALSE)

\* delete(k), started at rest
HdrStartDelete ==
  \E k \in HdrKeys :
    /\ AtRest
    /\ Begin("delete", k, NoVal, FALSE)

HdrNext ==
  \/ HdrStartSet
  \/ HdrStartDelete
  \/ ListStep
  \/ ScanStep
  \/ IncrStep
  \/ FindTagHdrStep
  \/ FindTagScanStep
  \/ FindHdrListStep
  \/ FindHdrScanStep
  \/ TaskTxnStep
  \/ TaskGetStep
  \/ Commit

HdrSpec == Init /\ [][HdrNext]_vars

(***************************************************************************)
(* C26.  Header overflow.                                                  *)
(***************************************************************************)
\* the smallest positive integer that is no header's slot
SmallestUnused(h) ==
  CHOOSE m \in 1..(Cardinality(DOMAIN h) + 1) :
    /\ m \notin DOMAIN h
    /\ \A q \in 1..(m - 1) : q \in DOMAIN h

\* the headers of h with room for size more bytes
Roomy(h, size) == {n \in DOMAIN h : sizeofHdr(h[n]) + size < MAX_TAG_SIZE}

\* the first listed header with room, else the smallest unused slot
HeaderFor(h, size) ==
  IF Roomy(h, size) # {}
  THEN CHOOSE n \in Roomy(h, size) : \A q \in Roomy(h, size) : n <= q
  ELSE SmallestUnused(h)

\* the last completed call was a set of a key that no header held
SetNew ==
  /\ log.last.op = "set"
  /\ log.last.kase = "new"
  /\ log.last.preHdr = -1

\* the headers as findEmptyHdr may read them: those the call started with,
\* header0 with the id counted, without or with the call's new bucket
HeadersRead ==
  LET h1 == incrementIDFn(log.last.preHdrs)
  IN {h1} \cup (IF log.last.fresh THEN {addBlockFn(h1, log.last.dptr.tag)}
                ELSE {})

\* C26: once the writes of a set of a new key have been applied, the key's
\* entry is in the first listed header that had room for it, or, when none
\* had, in a new header at the smallest unused positive slot; that header's
\* dataptr has gained the entry and nothing else, and the dataptr of every
\* other header that existed is what it was
C26_HeaderOverflow ==
  (AtRest /\ SetNew) =>
    LET k == log.last.key
        size == sizeofKeyPtr(k, log.last.dptr)
        n == log.last.hdrTag
        was == log.last.preHdrs
    IN /\ \E h \in HeadersRead : n = HeaderFor(h, size)
       /\ n \in DOMAIN hdrs
       /\ hdrs[n].dataptr =
            Upd(HdrOr(was, n).dataptr, k, compressDataPtr(log.last.dptr))
       /\ \A q \in DOMAIN was \ {n} :
            q \in DOMAIN hdrs /\ hdrs[q].dataptr = was[q].dataptr

\* header0 is full and headers 0 and 2 were the only ones when the call
\* started: the key is in the new header1
C26_Witness ==
  /\ AtRest
  /\ SetNew
  /\ DOMAIN log.last.preHdrs = {0, 2}
  /\ log.last.hdrTag = 1
  /\ DOMAIN hdrs[1].dataptr = {log.last.key}
  /\ hdrs[2].dataptr = log.last.preHdrs[2].dataptr

\* header0 is full and the key is in header1, the second header listed,
\* beside the key it held
C26_WitnessSecond ==
  /\ AtRest
  /\ SetNew
  /\ log.last.hdrTag = 1
  /\ 1 \in DOMAIN log.last.preHdrs
  /\ Cardinality(DOMAIN hdrs[1].dataptr) = 2
  /\ Cardinality(DOMAIN hdrs[0].dataptr) = 1

(***************************************************************************)
(* C27.  No empty bucket records.                                          *)
(***************************************************************************)
\* C27: in every state, every bucket record that exists holds at least one
\* entry
C27_NoEmptyBucket ==
  \A n \in DOMAIN dats : DOMAIN dats[n].data # {}

\* a delete took the only entry out of a bucket, its writes have been
\* applied, the record is gone and another bucket is still there
C27_Witness ==
  /\ AtRest
  /\ DeletedLastEntry
  /\ log.last.pre.tag \notin DOMAIN dats
  /\ DOMAIN dats # {}

====
